---- MODULE Spec2Model ----
(***************************************************************************)
(* applytrack: the record reconciliation engine                            *)
(* (app/services/manage_process_results.py) and the address enrichment     *)
(* pass that follows it (app/services/enrich_addresses.py,                 *)
(* app/services/address_resolver.py).                                      *)
(*                                                                         *)
(* Text is a sequence of one-character strings, so that strip, split,      *)
(* join, lower, strftime and strptime are computed and not assumed.        *)
(* Python's None is the value None below, which is no text.                *)
(***************************************************************************)
EXTENDS Integers, Sequences, FiniteSets, TLC

VARIABLES
    results,        \* the list handed to dedupe_and_merge_results (its dicts are mutated in place)
    input,          \* ghost: the list as it was when the call started
    include_role,   \* the include_role_in_key argument
    pc,             \* position in the run
    groups,         \* the dict `groups`, in insertion order: <<[key, entries]>>, entries = positions in results
    gi,             \* number of groups already merged by the loop of line 108
    merged,         \* the list `merged`
    origin,         \* ghost: origin[k] = index in groups of the group that produced merged[k]
    prompts,        \* ghost: the calls of prompt_job_title so far, <<[grp, company_name, answer]>>
    interactive,    \* the interactive argument of enrich_missing_addresses
    manual,         \* rows of the table manual_addresses, in rowid order
    openregister,   \* rows of the table company of the OpenRegister database
    ei,             \* number of entries the loop of enrich_missing_addresses has processed
    calls,          \* ghost: resolver calls made for the entry processed last, <<[op, ret]>>
    before,         \* ghost: the list as it was when enrich_missing_addresses was called
    outputs,        \* the output dicts of the group merges begun and not yet appended
    mails,          \* ghost: per extracted mail, the model's reply and the receive timestamp
    saves,          \* ghost: the calls of save_manual and prompt_and_save so far
    arg,            \* the argument of the normalizer function applied last
    ret,            \* what it returned, and what it returned for that
    out_files,      \* the files write_results_to_excels has saved, <<[path, numbers, rows]>>
    index,          \* write_results_to_excels: number of records already written
    part,           \* write_results_to_excels: number of the next file
    original,       \* ghost: a list of which the list handed to dedupe_and_merge_results is a permutation
    hook            \* the job-title hook: what is typed for an employer name

vars == <<results, input, include_role, pc, groups, gi, merged, origin, prompts,
          interactive, manual, openregister, ei, calls, before, outputs, mails, saves, arg, ret,
          out_files, index, part, original, hook>>

mergeVars == <<results, input, include_role, groups, gi, merged, origin, prompts>>
enrichVars == <<interactive, manual, openregister, ei, calls, before>>
exportVars == <<out_files, index, part>>
hookVars == <<original, hook>>
auxVars == <<outputs, mails, saves, arg, ret, out_files, index, part, original, hook>>

\* ------------------------------------------------------------------ values

\* Python's None.
None == <<"None">>

\* No datetime: R.RECEIVED_DATETIME missing from the dict or None, and the None
\* of an Optional[datetime].
MISSING == -1

\* datetime.min, the sentinel of lines 33 and 99.
DATETIME_MIN == 0

\* Largest number of observations in one call.
MaxObs == 2

\* The pipeline's real receive timestamps, in half days: 1 and 2 fall on
\* 31.01.2026, 3 on 01.02.2026.
Timestamps == {1, 2, 3}

\* Python's whitespace: the space and the tab.
IsSpace(c) == c \in {" ", "\t"}

RECURSIVE LStrip(_)
LStrip(s) == IF s = <<>> THEN <<>>
             ELSE IF IsSpace(Head(s)) THEN LStrip(Tail(s)) ELSE s

RECURSIVE RStrip(_)
RStrip(s) == IF s = <<>> THEN <<>>
             ELSE IF IsSpace(s[Len(s)]) THEN RStrip(SubSeq(s, 1, Len(s) - 1)) ELSE s

\* str.strip()
Strip(s) == RStrip(LStrip(s))

\* str.lower() on the letters the model uses.
LowerChar(c) == CASE c = "A" -> "a"
                  [] c = "B" -> "b"
                  [] c = "P" -> "p"
                  [] c = "Ä" -> "ä"
                  [] OTHER -> c

Lower(s) == [i \in 1..Len(s) |-> LowerChar(s[i])]

\* The first word of s (s starts with a non-space character) and what follows it.
RECURSIVE WordLen(_)
WordLen(s) == IF s = <<>> \/ IsSpace(Head(s)) THEN 0 ELSE 1 + WordLen(Tail(s))

\* str.split(): the maximal runs of non-space characters.
RECURSIVE Split(_)
Split(s) ==
    LET t == LStrip(s) IN
    IF t = <<>> THEN <<>>
    ELSE LET n == WordLen(t) IN <<SubSeq(t, 1, n)>> \o Split(SubSeq(t, n + 1, Len(t)))

\* " ".join(parts)
RECURSIVE JoinSpace(_)
JoinSpace(parts) ==
    IF parts = <<>> THEN <<>>
    ELSE IF Len(parts) = 1 THEN parts[1]
    ELSE parts[1] \o <<" ">> \o JoinSpace(Tail(parts))

Digit(n) == CASE n = 0 -> "0" [] n = 1 -> "1" [] n = 2 -> "2" [] n = 3 -> "3"
              [] n = 4 -> "4" [] n = 5 -> "5" [] n = 6 -> "6" [] n = 7 -> "7"
              [] n = 8 -> "8" [] n = 9 -> "9"

\* str(n) of a natural number.
RECURSIVE Str(_)
Str(n) == IF n < 10 THEN <<Digit(n)>> ELSE Str(n \div 10) \o <<Digit(n % 10)>>

Reverse(s) == [i \in 1..Len(s) |-> s[Len(s) + 1 - i]]

Range(f) == {f[i] : i \in DOMAIN f}

Min(S) == CHOOSE x \in S : \A y \in S : x <= y

\* ------------------------------------------------------------------ normalizer

\* clean_str that returns the trimmed text also when nothing is left of it.
clean_str_keeping_empty(value) ==
    IF value = None THEN None ELSE Strip(value)

clean_str(value) ==
    IF value = None THEN None
    ELSE LET text == Strip(value) IN IF text = <<>> THEN None ELSE text

\* R.UNKNOWN_COMPANY_PREFIX: one symbol that is no character of any text.
UNKNOWN_COMPANY_PREFIX == <<"UNKNOWN_COMPANY_PREFIX">>

\* company_key that compares names case-sensitively.
company_key_case_sensitive(value, entry_id) ==
    LET text == clean_str(value) IN
    IF text = None THEN UNKNOWN_COMPANY_PREFIX \o Str(entry_id)
    ELSE JoinSpace(Split(text))

\* company_key whose fallback key leaves the entry's position out.
company_key_shared_unknown(value, entry_id) ==
    LET text == clean_str(value) IN
    IF text = None THEN UNKNOWN_COMPANY_PREFIX
    ELSE Lower(JoinSpace(Split(text)))

company_key(value, entry_id) ==
    LET text == clean_str(value) IN
    IF text = None THEN UNKNOWN_COMPANY_PREFIX \o Str(entry_id)
    ELSE Lower(JoinSpace(Split(text)))

role_key(value) ==
    LET text == clean_str(value) IN
    IF text = None THEN None ELSE Lower(JoinSpace(Split(text)))

\* group_key that keeps the role in the key whatever include_role says.
group_key_with_role(entry, include_role_arg, entry_id) ==
    <<company_key(entry.employer_name, entry_id), role_key(entry.applied_position)>>

group_key(entry, include_role_arg, entry_id) ==
    LET company == company_key(entry.employer_name, entry_id)
        role == role_key(entry.applied_position)
    IN IF include_role_arg THEN <<company, role>> ELSE <<company, None>>

\* A sort key that does not look at the timestamp.
sort_key_same_for_all(entry) == DATETIME_MIN

sort_key_received_datetime(entry) ==
    IF entry.received_datetime = MISSING THEN DATETIME_MIN ELSE entry.received_datetime

\* ------------------------------------------------------------------ sorting

\* Tuple comparison of two sort keys <<a, b>>.
KeyLess(k1, k2) == k1[1] < k2[1] \/ (k1[1] = k2[1] /\ k1[2] < k2[2])

\* An insertion that puts x in front of the elements equal to it.
InsertUnstable(x, s) ==
    LET p == Cardinality({i \in 1..Len(s) : KeyLess(s[i].k, x.k)})
    IN SubSeq(s, 1, p) \o <<x>> \o SubSeq(s, p + 1, Len(s))

\* x put behind every element of the sorted s that is not greater than it.
InsertStable(x, s) ==
    LET p == Cardinality({i \in 1..Len(s) : ~KeyLess(x.k, s[i].k)})
    IN SubSeq(s, 1, p) \o <<x>> \o SubSeq(s, p + 1, Len(s))

\* list.sort / sorted: ascending and stable, on items [k |-> key, v |-> value].
RECURSIVE SortAsc(_)
SortAsc(items) ==
    IF items = <<>> THEN <<>>
    ELSE InsertStable(items[Len(items)], SortAsc(SubSeq(items, 1, Len(items) - 1)))

\* A descending sort that reverses the ascending one: equal keys come out in
\* the reverse of their original order.
SortDesc_reversing_ties(items) == Reverse(SortAsc(items))

\* sorted(..., reverse=True): descending, equal keys keep their original order.
SortDesc(items) == Reverse(SortAsc(Reverse(items)))

Values(items) == [i \in 1..Len(items) |-> items[i].v]

\* ------------------------------------------------------------------ dates

\* The calendar date of a datetime of the model: datetime.min is 01.01.0001.
DateOf(dt) ==
    IF dt = DATETIME_MIN THEN [day |-> 1, month |-> 1, year |-> 1]
    ELSE LET ordinal == (dt + 61) \div 2 IN
         IF ordinal <= 31 THEN [day |-> ordinal, month |-> 1, year |-> 2026]
         ELSE [day |-> ordinal - 31, month |-> 2, year |-> 2026]

TwoDigits(n) == <<Digit(n \div 10), Digit(n % 10)>>

FourDigits(n) == <<Digit(n \div 1000), Digit((n \div 100) % 10),
                   Digit((n \div 10) % 10), Digit(n % 10)>>

\* dt.strftime(R.DATE_FORMAT), R.DATE_FORMAT = "%d.%m.%Y"
strftime(dt) ==
    LET d == DateOf(dt) IN
    TwoDigits(d.day) \o <<".">> \o TwoDigits(d.month) \o <<".">> \o FourDigits(d.year)

IsDigit(c) == c \in {"0", "1", "2", "3", "4", "5", "6", "7", "8", "9"}

DigitVal(c) == CHOOSE n \in 0..9 : Digit(n) = c

RECURSIVE Number(_)
Number(s) == IF s = <<>> THEN 0
             ELSE 10 * Number(SubSeq(s, 1, Len(s) - 1)) + DigitVal(s[Len(s)])

DaysInMonth(month, year) ==
    IF month \in {4, 6, 9, 11} THEN 30
    ELSE IF month # 2 THEN 31
    ELSE IF year % 4 = 0 /\ (year % 100 # 0 \/ year % 400 = 0) THEN 29 ELSE 28

\* Whether datetime.strptime(text, R.DATE_FORMAT) returns (else it raises ValueError).
strptime_ok(text) ==
    /\ Len(text) = 10
    /\ text[3] = "." /\ text[6] = "."
    /\ \A i \in {1, 2, 4, 5, 7, 8, 9, 10} : IsDigit(text[i])
    /\ Number(SubSeq(text, 7, 10)) >= 1
    /\ Number(SubSeq(text, 4, 5)) \in 1..12
    /\ Number(SubSeq(text, 1, 2)) \in
         1..DaysInMonth(Number(SubSeq(text, 4, 5)), Number(SubSeq(text, 7, 10)))

\* The date strptime returns, as a number ordered like the dates.
strptime(text) ==
    Number(SubSeq(text, 7, 10)) * 10000 + Number(SubSeq(text, 4, 5)) * 100
        + Number(SubSeq(text, 1, 2))

\* ------------------------------------------------------------------ merge resolver

RECURSIVE first_non_null(_, _)
first_non_null(entries, field) ==
    IF entries = <<>> THEN None
    ELSE LET value == clean_str(Head(entries)[field]) IN
         IF value # None THEN value ELSE first_non_null(Tail(entries), field)

\* input().strip(), None when nothing is typed.
prompt_job_title(typed) ==
    LET job_title == Strip(typed) IN IF job_title # <<>> THEN job_title ELSE None

\* earliest_valid_received_datetime that does not skip datetime.min.
earliest_with_sentinel(entries_sorted_newest_first) ==
    IF entries_sorted_newest_first = <<>> THEN MISSING
    ELSE sort_key_received_datetime(
            entries_sorted_newest_first[Len(entries_sorted_newest_first)])

RECURSIVE earliest_valid_received_datetime(_)
earliest_valid_received_datetime(entries_sorted_newest_first) ==
    IF entries_sorted_newest_first = <<>> THEN MISSING
    ELSE LET n == Len(entries_sorted_newest_first)
             dt == sort_key_received_datetime(entries_sorted_newest_first[n])
         IN IF dt # DATETIME_MIN THEN dt
            ELSE earliest_valid_received_datetime(SubSeq(entries_sorted_newest_first, 1, n - 1))

\* Line 109: the group's entries, newest first.
NewestFirst(entries) ==
    Values(SortDesc([i \in 1..Len(entries) |->
        [k |-> <<0, sort_key_received_datetime(entries[i])>>, v |-> entries[i]]]))

\* The oldest-first list taken newest first.
OldestFirst_not_reversed(entries) == NewestFirst(entries)

\* Line 110.
OldestFirst(entries) == Reverse(NewestFirst(entries))

\* A fallback that takes the newest entry's value as it is, not cleaned.
MergedField_raw_fallback(entries, field) ==
    LET v == first_non_null(OldestFirst(entries), field) IN
    IF v = None THEN NewestFirst(entries)[1][field] ELSE v

\* Lines 117-119, 124-126, 136-138 and 129-131: first non-empty value from
\* oldest to newest, else the newest entry's value.
MergedField(entries, field) ==
    LET v == first_non_null(OldestFirst(entries), field) IN
    IF v = None THEN clean_str(NewestFirst(entries)[1][field]) ELSE v

\* A prompt decided on the newest entry alone.
NeedsPrompt_newest_only(entries) ==
    clean_str(NewestFirst(entries)[1]["applied_position"]) = None

\* Line 132: the job title is still missing, so line 133 prompts.
NeedsPrompt(entries) == MergedField(entries, "applied_position") = None

\* Lines 141-144.
FirstContactDate(entries) ==
    LET earliest_dt == earliest_valid_received_datetime(NewestFirst(entries)) IN
    IF earliest_dt # MISSING THEN strftime(earliest_dt) ELSE None

\* A result that falls back to older entries like the identity fields do.
MergedResult_with_fallback(entries) == first_non_null(NewestFirst(entries), "result")

\* Lines 112 and 122: the newest entry's result, as it is.
MergedResult(entries) == NewestFirst(entries)[1].result

\* Lines 109-146: the output dict of one group; answer is what prompt_job_title
\* returns if it is called.
MergeGroup(entries, answer) ==
    LET employer_name == MergedField(entries, "employer_name")
        job_title == MergedField(entries, "applied_position")
    IN [employer_name |-> employer_name,
        result |-> MergedResult(entries),
        contact_person |-> MergedField(entries, "contact_person"),
        applied_position |-> IF NeedsPrompt(entries) THEN answer ELSE job_title,
        postal_address |-> MergedField(entries, "postal_address"),
        first_contact_date |-> FirstContactDate(entries)]

\* sort_key that orders by the date text (day first) instead of the parsed date.
sort_key_by_text(entry) ==
    LET value == clean_str(entry.first_contact_date) IN
    IF value # None /\ strptime_ok(value)
    THEN <<0, Number(SubSeq(value, 1, 2)) * 1000000 + Number(SubSeq(value, 4, 5)) * 10000
                + Number(SubSeq(value, 7, 10))>>
    ELSE <<1, DATETIME_MIN>>

\* Lines 148-155.
sort_key(entry) ==
    LET value == clean_str(entry.first_contact_date) IN
    IF value # None /\ strptime_ok(value) THEN <<0, strptime(value)>>
    ELSE <<1, DATETIME_MIN>>

\* Line 157: the order merged.sort(key=sort_key) puts the positions of recs in.
SortedPositions(recs) ==
    Values(SortAsc([i \in 1..Len(recs) |-> [k |-> sort_key(recs[i]), v |-> i]]))

\* ------------------------------------------------------------------ grouping

\* Lines 101-104: groups after the first n entries of rs.
RECURSIVE GroupsOf(_, _, _)
GroupsOf(rs, include_role_arg, n) ==
    IF n = 0 THEN <<>>
    ELSE LET prev == GroupsOf(rs, include_role_arg, n - 1)
             key == group_key(rs[n], include_role_arg, n - 1)
             hit == {g \in 1..Len(prev) : prev[g].key = key}
         IN IF hit = {} THEN Append(prev, [key |-> key, entries |-> <<n>>])
            ELSE [g \in 1..Len(prev) |->
                    IF g \in hit THEN [prev[g] EXCEPT !.entries = Append(@, n)]
                    ELSE prev[g]]

\* A group's list that holds every entry, those of the other groups too.
EntriesOf_all_groups(rs, g) == rs

\* The dicts a group holds: references into results.
EntriesOf(rs, g) == [i \in 1..Len(g.entries) |-> rs[g.entries[i]]]

\* ------------------------------------------------------------------ inputs

Obs(n, c, p, a, r, t) ==
    [employer_name |-> n, contact_person |-> c, applied_position |-> p,
     postal_address |-> a, result |-> r, received_datetime |-> t]

NameA == <<"A", " ", "b">>
NameA2 == <<" ", "a", " ", " ", "B">>
NameAB == <<"a", "b">>
Name0 == <<"0">>
Blank == <<" ">>
PosP == <<"P">>
PosP2 == <<" ", "p">>
PosQ == <<"q">>
PersonC == <<"c">>
PersonD == <<"d", " ">>
AddrF == <<" ", "f">>
ResultR == <<"R">>
ResultZ == <<" ", "Z">>

\* What the user types at the job-title prompt.
JobTitleInputs == {<<>>, <<"T", " ">>}

\* Observations that differ in the employer name alone.
NamePool ==
    {Obs(n, None, None, None, None, 2) : n \in {None, Blank, NameA, NameA2, NameAB, Name0}}

\* Observations that differ in what the group key reads.
RolePool ==
    {Obs(n, None, p, None, None, 2) :
        n \in {NameA, NameA2}, p \in {None, Blank, PosP, PosP2, PosQ}}

\* Observations of one employer that differ in the spelling of its name, in
\* position and in time.
IdentityPool ==
    {Obs(n, None, p, None, None, t) :
        n \in {NameA, NameA2}, p \in {None, PosP, PosQ}, t \in {MISSING, 1, 3}}

\* Observations of one employer that differ in contact person, address and time.
ContactPool ==
    {Obs(NameA, c, PosP, a, None, t) :
        c \in {None, PersonC, PersonD}, a \in {None, AddrF}, t \in {MISSING, 1, 3}}

\* Observations that differ in result and time.
ResultPool ==
    {Obs(n, None, None, None, r, t) :
        n \in {NameA, NameAB}, r \in {None, ResultR, ResultZ}, t \in {MISSING, 1, 3}}

\* Observations of one named and of unnamed employers that differ in time.
OrderPool ==
    {Obs(n, None, PosP, None, None, t) : n \in {None, NameA}, t \in {MISSING} \cup Timestamps}

SeqsUpTo(S, n) == UNION {[1..k -> S] : k \in 0..n}

\* ------------------------------------------------------------------ dedupe_and_merge_results

InitEnrichIdle ==
    /\ interactive = FALSE
    /\ manual = <<>>
    /\ openregister = <<>>
    /\ ei = 0
    /\ calls = <<>>
    /\ before = <<>>

InitExportIdle ==
    /\ out_files = <<>>
    /\ index = 0
    /\ part = 1
    /\ original = <<>>
    /\ hook = <<>>

InitAuxIdle ==
    /\ outputs = {}
    /\ mails = <<>>
    /\ saves = <<>>
    /\ arg = None
    /\ ret = <<>>
    /\ InitExportIdle

Init ==
    /\ \/ /\ results \in SeqsUpTo(NamePool, MaxObs + 1) \cup SeqsUpTo(RolePool, MaxObs)
          /\ include_role \in BOOLEAN
       \/ /\ results \in SeqsUpTo(IdentityPool, MaxObs) \cup SeqsUpTo(ContactPool, MaxObs)
                         \cup SeqsUpTo(ResultPool, MaxObs) \cup SeqsUpTo(OrderPool, MaxObs + 1)
          /\ include_role = FALSE
    /\ input = results
    /\ pc = "start"
    /\ groups = <<>>
    /\ gi = 0
    /\ merged = <<>>
    /\ origin = <<>>
    /\ prompts = <<>>
    /\ InitEnrichIdle
    /\ InitAuxIdle

\* A function that rejects an empty list by raising.
AfterStart_rejecting_empty(rs) == IF rs = <<>> THEN "raised" ELSE "group"

\* Lines 93-94: where the function goes from its first statement.
AfterStart(rs) == IF rs = <<>> THEN "done" ELSE "group"

\* Lines 93-99: the early return, else the sentinel written into every entry
\* that has no datetime.
NormalizeTimestamps ==
    /\ pc = "start"
    /\ pc' = AfterStart(results)
    /\ results' = [i \in 1..Len(results) |->
                    IF results[i].received_datetime = MISSING
                    THEN [results[i] EXCEPT !.received_datetime = DATETIME_MIN]
                    ELSE results[i]]
    /\ UNCHANGED <<input, include_role, groups, gi, merged, origin, prompts>>
    /\ UNCHANGED enrichVars
    /\ UNCHANGED auxVars

\* Lines 101-106.
GroupEntries ==
    /\ pc = "group"
    /\ groups' = GroupsOf(results, include_role, Len(results))
    /\ gi' = 0
    /\ merged' = <<>>
    /\ origin' = <<>>
    /\ pc' = "merge"
    /\ UNCHANGED <<results, input, include_role, prompts>>
    /\ UNCHANGED enrichVars
    /\ UNCHANGED auxVars

\* Lines 108-146: one iteration of the loop over groups.items().
MergeNextGroup ==
    /\ pc = "merge"
    /\ gi < Len(groups)
    /\ LET entries == EntriesOf(results, groups[gi + 1]) IN
       \E typed \in JobTitleInputs :
          LET answer == prompt_job_title(typed)
              output == MergeGroup(entries, answer)
          IN /\ merged' = Append(merged, output)
             /\ origin' = Append(origin, gi + 1)
             /\ prompts' = IF NeedsPrompt(entries)
                           THEN Append(prompts, [grp |-> gi + 1,
                                                 company_name |-> clean_str(output.employer_name),
                                                 answer |-> answer])
                           ELSE prompts
    /\ gi' = gi + 1
    /\ UNCHANGED <<results, input, include_role, groups, pc>>
    /\ UNCHANGED enrichVars
    /\ UNCHANGED auxVars

\* Lines 148-158.
SortMerged ==
    /\ pc = "merge"
    /\ gi = Len(groups)
    /\ LET order == SortedPositions(merged) IN
       /\ merged' = [k \in 1..Len(merged) |-> merged[order[k]]]
       /\ origin' = [k \in 1..Len(merged) |-> origin[order[k]]]
    /\ pc' = "done"
    /\ UNCHANGED <<results, input, include_role, groups, gi, prompts>>
    /\ UNCHANGED enrichVars
    /\ UNCHANGED auxVars

Next ==
    \/ NormalizeTimestamps
    \/ GroupEntries
    \/ MergeNextGroup
    \/ SortMerged

Spec == Init /\ [][Next]_vars

\* ------------------------------------------------------------------ address resolver

\* ManualPostalAddress.to_one_line
to_one_line(row) == row.street \o <<",", " ">> \o row.postal_code \o <<" ">> \o row.city

\* NOCASE folds the 26 upper case letters of ASCII and no other character.
NoCaseChar(c) == CASE c = "A" -> "a"
                   [] c = "B" -> "b"
                   [] c = "P" -> "p"
                   [] OTHER -> c

NoCase(s) == [i \in 1..Len(s) |-> NoCaseChar(s[i])]

\* SQLite's COLLATE NOCASE comparison.
EqualNoCase(a, b) == NoCase(a) = NoCase(b)

\* The rows of the manual table that the WHERE clause of lines 128 and 176 selects.
ManualMatches(rows, name) == {r \in 1..Len(rows) : EqualNoCase(rows[r].company_name, name)}

\* AddressResolver.find_manual: <<>> for None, else <<the address found>>.
find_manual(rows, company_name) ==
    LET name == Strip(company_name) IN
    IF name = <<>> THEN <<>>
    ELSE LET hit == ManualMatches(rows, name) IN
         IF hit = {} THEN <<>>
         ELSE LET row == rows[Min(hit)] IN
              <<[street |-> row.street, postal_code |-> row.postal_code, city |-> row.city]>>

\* save_manual that inserts without trying the UPDATE first.
save_manual_insert_only(rows, company_name, street_arg, postal_code_arg, city_arg) ==
    LET name == Strip(company_name)
        street == Strip(street_arg)
        postal_code == Strip(postal_code_arg)
        city == Strip(city_arg)
    IN IF name = <<>> \/ street = <<>> \/ postal_code = <<>> \/ city = <<>> THEN rows
       ELSE Append(rows, [company_name |-> name, street |-> street,
                          postal_code |-> postal_code, city |-> city])

\* AddressResolver.save_manual: the table after the call.
save_manual(rows, company_name, street_arg, postal_code_arg, city_arg) ==
    LET name == Strip(company_name)
        street == Strip(street_arg)
        postal_code == Strip(postal_code_arg)
        city == Strip(city_arg)
    IN IF name = <<>> \/ street = <<>> \/ postal_code = <<>> \/ city = <<>> THEN rows
       ELSE IF ManualMatches(rows, name) # {}
       THEN [r \in 1..Len(rows) |->
                IF r \in ManualMatches(rows, name)
                THEN [rows[r] EXCEPT !.street = street, !.postal_code = postal_code,
                                     !.city = city]
                ELSE rows[r]]
       ELSE Append(rows, [company_name |-> name, street |-> street,
                          postal_code |-> postal_code, city |-> city])

RECURSIVE SqlLTrim(_)
SqlLTrim(s) == IF s = <<>> THEN <<>>
               ELSE IF Head(s) = " " THEN SqlLTrim(Tail(s)) ELSE s

\* SQLite's TRIM(x): spaces only.
SqlTrim(s) == Reverse(SqlLTrim(Reverse(SqlLTrim(s))))

\* AddressResolver.find_openregister: the stored text as it is, or None.
find_openregister(rows, company_name) ==
    LET name == Strip(company_name) IN
    IF name = <<>> THEN None
    ELSE LET hit == {r \in 1..Len(rows) :
                        /\ EqualNoCase(rows[r].name, name)
                        /\ rows[r].registered_address # None
                        /\ SqlTrim(rows[r].registered_address) # <<>>}
         IN IF hit = {} THEN None ELSE rows[Min(hit)].registered_address

\* AddressResolver.prompt_and_save: what it returns when the user types
\* typed.street, typed.postal_code and typed.city.
prompt_and_save_result(company_name, typed) ==
    IF Strip(company_name) = <<>> THEN None
    ELSE IF Strip(typed.street) = <<>> THEN None
    ELSE IF Strip(typed.postal_code) = <<>> THEN None
    ELSE IF Strip(typed.city) = <<>> THEN None
    ELSE Strip(typed.street) \o <<",", " ">> \o Strip(typed.postal_code) \o <<" ">>
            \o Strip(typed.city)

\* AddressResolver.prompt_and_save: the manual table after the call.
prompt_and_save_rows(rows, company_name, typed) ==
    IF prompt_and_save_result(company_name, typed) = None THEN rows
    ELSE save_manual(rows, Strip(company_name), Strip(typed.street),
                     Strip(typed.postal_code), Strip(typed.city))

\* ------------------------------------------------------------------ enrich_missing_addresses

\* Lines 19-22 alone: a record that already has an address is looked up again.
Skipped_name_only(entry) ==
    \/ entry.employer_name = None
    \/ Strip(entry.employer_name) = <<>>

\* Lines 19-28: the entry is skipped.
Skipped(entry) ==
    \/ entry.employer_name = None
    \/ Strip(entry.employer_name) = <<>>
    \/ entry.postal_address # None /\ Strip(entry.postal_address) # <<>>

\* Lines 30-44 with every lookup made, whatever an earlier one returned.
ResolverCalls_no_short_circuit(company_name, man, reg, inter, typed) ==
    LET found == find_manual(man, company_name)
        registered == find_openregister(reg, company_name)
    IN <<[op |-> "find_manual",
          ret |-> IF found # <<>> THEN to_one_line(found[1]) ELSE None],
         [op |-> "find_openregister", ret |-> registered]>>
       \o IF inter /\ found = <<>> /\ (registered = None \/ Strip(registered) = <<>>)
          THEN <<[op |-> "prompt_and_save", ret |-> prompt_and_save_result(company_name, typed)]>>
          ELSE <<>>

\* Lines 30-44: the resolver calls made for one entry, in order, each with the
\* address it returned (find_manual's rendered by to_one_line).
ResolverCalls(company_name, man, reg, inter, typed) ==
    LET found == find_manual(man, company_name)
        first == <<[op |-> "find_manual",
                    ret |-> IF found # <<>> THEN to_one_line(found[1]) ELSE None]>>
    IN IF found # <<>> THEN first
       ELSE LET registered == find_openregister(reg, company_name)
                second == Append(first, [op |-> "find_openregister", ret |-> registered])
            IN IF registered # None /\ Strip(registered) # <<>> THEN second
               ELSE IF inter
               THEN Append(second, [op |-> "prompt_and_save",
                                    ret |-> prompt_and_save_result(company_name, typed)])
               ELSE second

\* Lines 30-46: the value stored in the entry's postal_address.
Resolved(made) ==
    LET last == made[Len(made)] IN
    IF last.ret = None THEN None
    ELSE IF last.op = "find_manual" THEN last.ret
    ELSE IF Strip(last.ret) = <<>> THEN None
    ELSE Strip(last.ret)

\* The records handed to enrich_missing_addresses: main passes merged records,
\* whose texts are clean; the function itself also takes blank texts.
RecordPool ==
    {[employer_name |-> n, result |-> None, contact_person |-> None,
      applied_position |-> PosP, postal_address |-> a, first_contact_date |-> None] :
        n \in {None, Blank, NameA, NameAB}, a \in {None, Blank, <<"f">>}}

\* Contents of the manual address table when the run starts.
ManualTables ==
    {<<>>,
     <<[company_name |-> <<"a", " ", "B">>, street |-> <<"s">>, postal_code |-> <<"1">>,
        city |-> <<"y">>]>>}

\* Contents of the OpenRegister table company.
OpenRegisterTables ==
    {<<>>,
     <<[name |-> <<"A", "B">>, registered_address |-> <<" ", "g">>]>>,
     <<[name |-> NameA, registered_address |-> <<"\t">>],
       [name |-> NameAB, registered_address |-> None]>>}

\* What the user types at the three address prompts.
AddressInputs ==
    [street : {<<>>, <<"s", " ">>}, postal_code : {<<" ">>, <<"2">>}, city : {<<>>, <<"z">>}]

InitEnrich ==
    /\ results = <<>>
    /\ input = <<>>
    /\ include_role = FALSE
    /\ groups = <<>>
    /\ gi = 0
    /\ origin = <<>>
    /\ prompts = <<>>
    /\ merged \in SeqsUpTo(RecordPool, MaxObs)
    /\ pc = "merged"
    /\ interactive \in BOOLEAN
    /\ manual \in ManualTables
    /\ openregister \in OpenRegisterTables
    /\ ei = 0
    /\ calls = <<>>
    /\ before = merged
    /\ InitAuxIdle

\* main, lines 47-49: load_address_resolver returns, or AddressResolver.__init__
\* raises (lines 37-46) and the exception leaves main through the finally.
LoadResolver ==
    /\ pc = "merged"
    /\ \E manual_db_path \in {<<>>, <<"m">>}, openregister_db_path \in {<<" ">>, <<"o">>},
          exists \in BOOLEAN :
        IF \/ Strip(manual_db_path) = <<>>
           \/ Strip(openregister_db_path) = <<>>
           \/ ~exists
        THEN pc' = "aborted"
        ELSE pc' = "enrich"
    /\ UNCHANGED mergeVars
    /\ UNCHANGED enrichVars
    /\ UNCHANGED auxVars

\* enrich_missing_addresses, lines 19-46: one iteration of the loop.
EnrichEntry ==
    /\ pc = "enrich"
    /\ ei < Len(merged)
    /\ LET entry == merged[ei + 1] IN
       IF Skipped(entry)
       THEN /\ calls' = <<>>
            /\ UNCHANGED <<merged, manual>>
       ELSE \E typed \in AddressInputs :
            LET company_name == Strip(entry.employer_name)
                made == ResolverCalls(company_name, manual, openregister, interactive, typed)
            IN /\ calls' = made
               /\ manual' = IF made[Len(made)].op = "prompt_and_save"
                            THEN prompt_and_save_rows(manual, company_name, typed)
                            ELSE manual
               /\ merged' = [merged EXCEPT ![ei + 1].postal_address = Resolved(made)]
    /\ ei' = ei + 1
    /\ UNCHANGED <<results, input, include_role, groups, gi, origin, prompts, pc>>
    /\ UNCHANGED <<interactive, openregister, before>>
    /\ UNCHANGED auxVars

\* main, lines 50-53: enrich_missing_addresses has returned, the finally closes
\* the resolver.
CloseResolver ==
    /\ pc = "enrich"
    /\ ei = Len(merged)
    /\ pc' = "closed"
    /\ UNCHANGED mergeVars
    /\ UNCHANGED enrichVars
    /\ UNCHANGED auxVars

\* main, lines 55-64: the records are handed to write_results_to_excels.
ExportResults ==
    /\ pc = "closed"
    /\ pc' = "exported"
    /\ UNCHANGED mergeVars
    /\ UNCHANGED enrichVars
    /\ UNCHANGED auxVars

NextEnrich ==
    \/ LoadResolver
    \/ EnrichEntry
    \/ CloseResolver
    \/ ExportResults

SpecEnrich == InitEnrich /\ [][NextEnrich]_vars

\* ------------------------------------------------------------------ extract_fields_from_email

\* The model's output is a text of JSON lexemes and whitespace characters.
\* The string lexemes the replies use: the keys of SCHEMA and two values.
JsonStrings ==
    {"\"arbeitgeber_name\"", "\"gespraechspartner\"", "\"beworben_als\"", "\"anschrift\"",
     "\"ergebnis\"", "\"A b\"", "\"Absage\""}

\* The str json.loads makes of a string lexeme.
StringText(lexeme) ==
    CASE lexeme = "\"A b\"" -> NameA
      [] lexeme = "\"Absage\"" -> <<"A", "b", "s", "a", "g", "e">>
      [] OTHER -> <<lexeme>>

IsScalar(lexeme) == lexeme = "null" \/ lexeme \in JsonStrings

JsonValue(lexeme) == IF lexeme = "null" THEN None ELSE StringText(lexeme)

\* The members of a JSON object: string : value, separated by commas.
RECURSIVE IsMembers(_)
IsMembers(t) ==
    /\ Len(t) >= 3
    /\ t[1] \in JsonStrings
    /\ t[2] = ":"
    /\ IsScalar(t[3])
    /\ \/ Len(t) = 3
       \/ /\ Len(t) > 4
          /\ t[4] = ","
          /\ IsMembers(SubSeq(t, 5, Len(t)))

\* The dict of well-formed members; of a repeated key the last value stays.
RECURSIVE DictOf(_)
DictOf(t) ==
    IF Len(t) = 3 THEN t[1] :> JsonValue(t[3])
    ELSE DictOf(SubSeq(t, 5, Len(t))) @@ (t[1] :> JsonValue(t[3]))

\* json.loads: whitespace between lexemes is skipped; a text that is no JSON
\* document raises JSONDecodeError, a ValueError.
json_loads(raw) ==
    LET t == SelectSeq(raw, LAMBDA c : ~IsSpace(c)) IN
    IF Len(t) = 1 /\ IsScalar(t[1])
    THEN [raised |-> "", is_dict |-> FALSE, value |-> JsonValue(t[1])]
    ELSE IF t = <<"[", "]">>
    THEN [raised |-> "", is_dict |-> FALSE, value |-> <<>>]
    ELSE IF t = <<"{", "}">>
    THEN [raised |-> "", is_dict |-> TRUE, value |-> <<>>]
    ELSE IF /\ Len(t) >= 5
            /\ t[1] = "{"
            /\ t[Len(t)] = "}"
            /\ IsMembers(SubSeq(t, 2, Len(t) - 1))
    THEN [raised |-> "", is_dict |-> TRUE, value |-> DictOf(SubSeq(t, 2, Len(t) - 1))]
    ELSE [raised |-> "ValueError"]

\* SCHEMA["schema"]["properties"], lines 50-56.
SCHEMA_properties ==
    {"\"arbeitgeber_name\"", "\"gespraechspartner\"", "\"beworben_als\"", "\"anschrift\"",
     "\"ergebnis\""}

\* ask_ollama, lines 67-81: the request fails, or the response has no choice,
\* or its content is no text or blank; otherwise the content is returned.
ask_ollama(reply) ==
    IF reply.transport # "ok" THEN [raised |-> "APIError"]
    ELSE IF reply.choices = 0 THEN [raised |-> "IndexError"]
    ELSE IF reply.content = None \/ Strip(reply.content) = <<>>
    THEN [raised |-> "RuntimeError"]
    ELSE [raised |-> "", value |-> reply.content]

\* parse_llm_json, lines 110-120.
parse_llm_json(raw) ==
    IF raw = None \/ Strip(raw) = <<>> THEN [raised |-> "ValueError"]
    ELSE LET parsed == json_loads(Strip(raw)) IN
         IF parsed.raised # "" THEN [raised |-> parsed.raised]
         ELSE IF ~parsed.is_dict THEN [raised |-> "ValueError"]
         ELSE [raised |-> "",
               value |-> parsed.value @@ [key \in SCHEMA_properties |-> None]]

\* The dict of the except branch, lines 159-167.
llm_failed(received) ==
    [employer_name |-> None, contact_person |-> None, applied_position |-> None,
     postal_address |-> None, result |-> None, received_datetime |-> received,
     status |-> "llm_failed"]

\* Lines 142-154: the body of the try; what is raised in it is the result.
extract_try(reply, received) ==
    LET raw == ask_ollama(reply) IN
    IF raw.raised # "" THEN [raised |-> raw.raised]
    ELSE LET parsed == parse_llm_json(raw.value) IN
         IF parsed.raised # "" THEN [raised |-> parsed.raised]
         ELSE [raised |-> "",
               value |-> [employer_name |-> parsed.value["\"arbeitgeber_name\""],
                          contact_person |-> parsed.value["\"gespraechspartner\""],
                          applied_position |-> parsed.value["\"beworben_als\""],
                          postal_address |-> parsed.value["\"anschrift\""],
                          result |-> parsed.value["\"ergebnis\""],
                          received_datetime |-> received,
                          status |-> "ok"]]

\* An except clause for ValueError alone: what the request or ask_ollama
\* raises leaves the function.
extract_catching_ValueError(reply, received) ==
    LET tried == extract_try(reply, received) IN
    IF tried.raised = "ValueError" THEN [raised |-> "", value |-> llm_failed(received)]
    ELSE tried

\* extract_fields_from_email, lines 142-167: except Exception catches
\* whatever the try raised.
extract_fields_from_email(reply, received) ==
    LET tried == extract_try(reply, received) IN
    IF tried.raised # "" THEN [raised |-> "", value |-> llm_failed(received)]
    ELSE tried

\* What the endpoint answers to one request. what names the case in the
\* words of the contract; the code never reads it.
Reply(what, transport, choices, content) ==
    [what |-> what, transport |-> transport, choices |-> choices, content |-> content]

Replies ==
    {Reply("transport error", "error", 0, None),
     Reply("empty output", "ok", 0, None),
     Reply("empty output", "ok", 1, None),
     Reply("empty output", "ok", 1, <<>>),
     Reply("empty output", "ok", 1, <<" ", "\t">>),
     Reply("malformed JSON", "ok", 1, <<"{">>),
     Reply("malformed JSON", "ok", 1, <<"{", "\"arbeitgeber_name\"", "}">>),
     Reply("malformed JSON", "ok", 1, <<"{", "\"ergebnis\"", ":", "\"Absage\"", ",", "}">>),
     Reply("malformed JSON", "ok", 1, <<"{", "}", "}">>),
     Reply("non-object JSON", "ok", 1, <<"[", "]">>),
     Reply("non-object JSON", "ok", 1, <<"null">>),
     Reply("non-object JSON", "ok", 1, <<" ", "\"A b\"">>),
     Reply("object", "ok", 1, <<"{", "}">>),
     Reply("object", "ok", 1,
           <<" ", "{", "\"arbeitgeber_name\"", ":", " ", "\"A b\"", ",",
             "\"ergebnis\"", ":", "\"Absage\"", "}", " ">>),
     Reply("object", "ok", 1,
           <<"{", "\"arbeitgeber_name\"", ":", "null", ",", "\"arbeitgeber_name\"", ":",
             "\"A b\"", "}">>)}

\* mail.received_datetime, main line 42.
ReceiveTimestamps == {MISSING, 2}

InitExtract ==
    /\ results = <<>>
    /\ input = <<>>
    /\ include_role = FALSE
    /\ pc = "extract"
    /\ groups = <<>>
    /\ gi = 0
    /\ merged = <<>>
    /\ origin = <<>>
    /\ prompts = <<>>
    /\ InitEnrichIdle
    /\ InitAuxIdle

\* main, lines 40-43: one iteration of the loop over the mails.
ExtractMail ==
    /\ pc = "extract"
    /\ Len(results) < MaxObs
    /\ \E reply \in Replies, received \in ReceiveTimestamps :
        LET parsed == extract_fields_from_email(reply, received) IN
        /\ mails' = Append(mails, [reply |-> reply, received_datetime |-> received])
        /\ IF parsed.raised # ""
           THEN pc' = "raised" /\ UNCHANGED results
           ELSE pc' = pc /\ results' = Append(results, parsed.value)
    /\ UNCHANGED <<input, include_role, groups, gi, merged, origin, prompts>>
    /\ UNCHANGED enrichVars
    /\ UNCHANGED <<outputs, saves, arg, ret>>
    /\ UNCHANGED exportVars
    /\ UNCHANGED hookVars

NextExtract == ExtractMail

SpecExtract == InitExtract /\ [][NextExtract]_vars

\* ------------------------------------------------------------------ the normalizer on its own

MaxLen == 4

\* The characters of the texts clean_str is applied to.
TextChars == {" ", "\t", "a"}

InitClean ==
    /\ results = <<>>
    /\ input = <<>>
    /\ include_role = FALSE
    /\ pc = "clean"
    /\ groups = <<>>
    /\ gi = 0
    /\ merged = <<>>
    /\ origin = <<>>
    /\ prompts = <<>>
    /\ InitEnrichIdle
    /\ outputs = {}
    /\ mails = <<>>
    /\ saves = <<>>
    /\ arg \in {None} \cup SeqsUpTo(TextChars, MaxLen)
    /\ ret = <<>>
    /\ InitExportIdle

\* clean_str applied to a value, and again to what it returned.
ApplyClean ==
    /\ pc = "clean"
    /\ ret' = <<clean_str(arg), clean_str(clean_str(arg))>>
    /\ pc' = "cleaned"
    /\ UNCHANGED mergeVars
    /\ UNCHANGED enrichVars
    /\ UNCHANGED <<outputs, mails, saves, arg>>
    /\ UNCHANGED exportVars
    /\ UNCHANGED hookVars

NextClean == ApplyClean

SpecClean == InitClean /\ [][NextClean]_vars

\* ------------------------------------------------------------------ the group merges in any order

\* Observations of a named and of unnamed employers, with and without position.
AnyOrderPool ==
    {Obs(n, None, p, None, rt[1], rt[2]) :
        n \in {None, NameA}, p \in {None, PosP}, rt \in {<<ResultR, MISSING>>, <<ResultZ, 1>>}}

InitAnyOrder ==
    /\ results \in SeqsUpTo(AnyOrderPool, MaxObs)
    /\ input = results
    /\ include_role = FALSE
    /\ pc = "start"
    /\ groups = <<>>
    /\ gi = 0
    /\ merged = <<>>
    /\ origin = <<>>
    /\ prompts = <<>>
    /\ InitEnrichIdle
    /\ InitAuxIdle

\* The groups whose merge has begun.
Begun == {o.grp : o \in outputs} \cup Range(origin)

\* Lines 109-144 for any group not yet begun: the body of the loop up to the
\* complete output dict, the prompt included.
BeginMerge ==
    /\ pc = "merge"
    /\ \E g \in (1..Len(groups)) \ Begun :
        LET entries == EntriesOf(results, groups[g]) IN
        \E typed \in JobTitleInputs :
            LET answer == prompt_job_title(typed)
                output == MergeGroup(entries, answer)
            IN /\ outputs' = outputs \cup {[grp |-> g, output |-> output]}
               /\ prompts' = IF NeedsPrompt(entries)
                             THEN Append(prompts, [grp |-> g,
                                                   company_name |-> clean_str(output.employer_name),
                                                   answer |-> answer])
                             ELSE prompts
    /\ UNCHANGED <<results, input, include_role, groups, gi, merged, origin, pc>>
    /\ UNCHANGED enrichVars
    /\ UNCHANGED <<mails, saves, arg, ret>>
    /\ UNCHANGED exportVars
    /\ UNCHANGED hookVars

\* Line 146 for any group whose output is complete.
AppendMerged ==
    /\ pc = "merge"
    /\ \E o \in outputs :
        /\ merged' = Append(merged, o.output)
        /\ origin' = Append(origin, o.grp)
        /\ outputs' = outputs \ {o}
    /\ gi' = gi + 1
    /\ UNCHANGED <<results, input, include_role, groups, prompts, pc>>
    /\ UNCHANGED enrichVars
    /\ UNCHANGED <<mails, saves, arg, ret>>
    /\ UNCHANGED exportVars
    /\ UNCHANGED hookVars

NextAnyOrder ==
    \/ NormalizeTimestamps
    \/ GroupEntries
    \/ BeginMerge
    \/ AppendMerged
    \/ SortMerged

SpecAnyOrder == InitAnyOrder /\ [][NextAnyOrder]_vars

\* ------------------------------------------------------------------ the manual address store

MaxSaves == 2

\* The company names the store is called with.
StoreNames == {<<"a", "b">>, <<" ", "A", "B">>, <<"ä">>, <<"Ä">>, Blank}

\* The street, postal code and city of a call, as passed or as typed.
StoreAddresses ==
    {[street |-> <<"s">>, postal_code |-> <<"1">>, city |-> <<"y">>],
     [street |-> <<"t", " ">>, postal_code |-> <<" ", "2">>, city |-> <<"z">>],
     [street |-> <<>>, postal_code |-> <<"1">>, city |-> <<"y">>],
     [street |-> <<"s">>, postal_code |-> <<" ">>, city |-> <<"y">>],
     [street |-> <<"s">>, postal_code |-> <<"1">>, city |-> <<>>]}

\* The store of a new database, after ensure_manual_schema.
InitStore ==
    /\ results = <<>>
    /\ input = <<>>
    /\ include_role = FALSE
    /\ pc = "store"
    /\ groups = <<>>
    /\ gi = 0
    /\ merged = <<>>
    /\ origin = <<>>
    /\ prompts = <<>>
    /\ InitEnrichIdle
    /\ InitAuxIdle

\* The entry of the log for one call.
Saved(op, company_name, address, rows_after) ==
    [op |-> op, company_name |-> company_name, street |-> address.street,
     postal_code |-> address.postal_code, city |-> address.city,
     before |-> manual, after |-> rows_after]

\* A call of save_manual.
SaveManual ==
    /\ pc = "store"
    /\ Len(saves) < MaxSaves
    /\ \E company_name \in StoreNames, address \in StoreAddresses :
        LET rows == save_manual(manual, company_name, address.street,
                                address.postal_code, address.city)
        IN /\ manual' = rows
           /\ saves' = Append(saves, Saved("save_manual", company_name, address, rows))
    /\ UNCHANGED mergeVars
    /\ UNCHANGED <<pc, interactive, openregister, ei, calls, before>>
    /\ UNCHANGED <<outputs, mails, arg, ret>>
    /\ UNCHANGED exportVars
    /\ UNCHANGED hookVars

\* A call of prompt_and_save with what the user types.
PromptAndSave ==
    /\ pc = "store"
    /\ Len(saves) < MaxSaves
    /\ \E company_name \in StoreNames, typed \in StoreAddresses :
        LET rows == prompt_and_save_rows(manual, company_name, typed)
        IN /\ manual' = rows
           /\ saves' = Append(saves, Saved("prompt_and_save", company_name, typed, rows))
    /\ UNCHANGED mergeVars
    /\ UNCHANGED <<pc, interactive, openregister, ei, calls, before>>
    /\ UNCHANGED <<outputs, mails, arg, ret>>
    /\ UNCHANGED exportVars
    /\ UNCHANGED hookVars

NextStore ==
    \/ SaveManual
    \/ PromptAndSave

SpecStore == InitStore /\ [][NextStore]_vars

\* ------------------------------------------------------------------ write_results_to_excels

MaxRecords == 13

\* chunk_size, line 38.
chunk_size == 6

\* A slice that stops one entry early.
Chunk_one_short(rs, from) ==
    SubSeq(rs, from + 1, IF from + chunk_size - 1 < Len(rs)
                         THEN from + chunk_size - 1 ELSE Len(rs))

\* Line 45: results[index : index + chunk_size].
Chunk(rs, from) ==
    SubSeq(rs, from + 1, IF from + chunk_size < Len(rs) THEN from + chunk_size ELSE Len(rs))

\* str(part).zfill(2)
Zfill2(n) == IF n < 10 THEN <<"0">> \o Str(n) ELSE Str(n)

\* Lines 104-107: the file name without directory and timestamp, which are
\* the same for all files of one call.
OutPath(n) == <<"table_filled_">> \o Zfill2(n) \o <<".xlsx">>

\* Lines 78-92: the text of column B.
EmployerText(entry) ==
    LET employer_text == IF entry.employer_name # None THEN entry.employer_name ELSE <<>>
        postal_address == entry.postal_address
    IN IF postal_address # None /\ Strip(postal_address) # <<>>
       THEN IF Strip(employer_text) # <<>>
            THEN Strip(employer_text) \o <<",", " ">> \o Strip(postal_address)
            ELSE Strip(postal_address)
       ELSE employer_text

\* x if x else "" for a text or None.
OrEmpty(x) == IF x = None THEN <<>> ELSE x

\* Lines 75-102: the cells written for one entry.
SheetRows(entry) ==
    [B |-> EmployerText(entry),
     C |-> entry.contact_person,
     D |-> <<<<"a", "m", ":", " ">> \o OrEmpty(entry.first_contact_date),
             <<"w", "i", "e", ":", " ", "Online-Bewerbung">>,
             <<"a", "l", "s", ":", " ">> \o OrEmpty(entry.applied_position)>>,
     F |-> entry.result]

\* The merged records handed to the exporter.
ExportPool ==
    {[employer_name |-> NameA, result |-> ResultR, contact_person |-> PersonC,
      applied_position |-> PosP, postal_address |-> AddrF,
      first_contact_date |-> strftime(1)],
     [employer_name |-> None, result |-> None, contact_person |-> None,
      applied_position |-> None, postal_address |-> None, first_contact_date |-> None]}

InitExport ==
    /\ results = <<>>
    /\ input = <<>>
    /\ include_role = FALSE
    /\ pc = "export"
    /\ groups = <<>>
    /\ gi = 0
    /\ merged \in SeqsUpTo(ExportPool, MaxRecords)
    /\ origin = <<>>
    /\ prompts = <<>>
    /\ InitEnrichIdle
    /\ InitAuxIdle

\* Lines 31-42: the early return for no record, else the first file is next.
StartExport ==
    /\ pc = "export"
    /\ pc' = IF merged = <<>> THEN "returned" ELSE "page"
    /\ out_files' = <<>>
    /\ index' = 0
    /\ part' = 1
    /\ UNCHANGED mergeVars
    /\ UNCHANGED enrichVars
    /\ UNCHANGED <<outputs, mails, saves, arg, ret>>
    /\ UNCHANGED hookVars

\* Lines 44-113: one pass of the while loop, one file saved.
WritePage ==
    /\ pc = "page"
    /\ index < Len(merged)
    /\ LET chunk == Chunk(merged, index) IN
        /\ out_files' = Append(out_files,
                [path |-> OutPath(part),
                 numbers |-> [j \in 1..chunk_size |-> index + (j - 1) + 1],
                 rows |-> [i \in 1..Len(chunk) |-> SheetRows(chunk[i])]])
        /\ index' = index + Len(chunk)
    /\ part' = part + 1
    /\ UNCHANGED pc
    /\ UNCHANGED mergeVars
    /\ UNCHANGED enrichVars
    /\ UNCHANGED <<outputs, mails, saves, arg, ret>>
    /\ UNCHANGED hookVars

\* Lines 44 and 115: the loop condition fails, out_files is returned.
ReturnFiles ==
    /\ pc = "page"
    /\ ~(index < Len(merged))
    /\ pc' = "returned"
    /\ UNCHANGED mergeVars
    /\ UNCHANGED enrichVars
    /\ UNCHANGED auxVars

NextExport ==
    \/ StartExport
    \/ WritePage
    \/ ReturnFiles

\* The function runs on its own: a step that can be taken is taken.
SpecExport == InitExport /\ [][NextExport]_vars /\ WF_vars(NextExport)

\* ------------------------------------------------------------------ the input in another order

\* Lines 96-99 on the whole list.
WithSentinel(rs) ==
    [i \in 1..Len(rs) |->
        IF rs[i].received_datetime = MISSING
        THEN [rs[i] EXCEPT !.received_datetime = DATETIME_MIN]
        ELSE rs[i]]

\* Line 133 with a hook that types job_title_for[name] for the employer name.
HookAnswer(job_title_for, entries) ==
    prompt_job_title(job_title_for[clean_str(MergedField(entries, "employer_name"))])

\* dedupe_and_merge_results, lines 93-158, as one function of its input and
\* of the hook.
dedupe_and_merge_results(rs, include_role_arg, job_title_for) ==
    LET entries_all == WithSentinel(rs)
        grouped == GroupsOf(entries_all, include_role_arg, Len(rs))
        unsorted == [g \in 1..Len(grouped) |->
                        MergeGroup(EntriesOf(entries_all, grouped[g]),
                                   HookAnswer(job_title_for, EntriesOf(entries_all, grouped[g])))]
        order == SortedPositions(unsorted)
    IN [k \in 1..Len(unsorted) |-> unsorted[order[k]]]

\* Observations of one employer in two spellings and of unnamed employers,
\* with positions and results that differ from one time to the next.
PermPool ==
    {Obs(n, None, v[1], None, v[2], v[3]) :
        n \in {None, NameA, NameA2},
        v \in {<<None, ResultR, 1>>, <<PosP, ResultZ, 2>>, <<PosQ, None, 3>>,
               <<None, None, 2>>}}

\* The employer names the hook is asked about.
HookNames == {None, <<"A", " ", "b">>, <<"a", " ", " ", "B">>}

\* Hooks that name a job title for the named employers only, and for the
\* unnamed only.
Hooks ==
    {[n \in HookNames |-> IF n = None THEN <<>> ELSE <<"T", " ">>],
     [n \in HookNames |-> IF n = None THEN <<"T", " ">> ELSE <<>>]}

\* The lists that hold the entries of rs in some order.
Reorderings(rs) ==
    {[i \in 1..Len(rs) |-> rs[pi[i]]] : pi \in Permutations(1..Len(rs))}

InitPermuted ==
    /\ original \in SeqsUpTo(PermPool, MaxObs)
    /\ results \in Reorderings(original)
    /\ input = results
    /\ include_role \in BOOLEAN
    /\ hook \in Hooks
    /\ pc = "start"
    /\ groups = <<>>
    /\ gi = 0
    /\ merged = <<>>
    /\ origin = <<>>
    /\ prompts = <<>>
    /\ InitEnrichIdle
    /\ outputs = {}
    /\ mails = <<>>
    /\ saves = <<>>
    /\ arg = None
    /\ ret = <<>>
    /\ out_files = <<>>
    /\ index = 0
    /\ part = 1

\* Lines 108-146 for the next group, the job title asked from the hook.
MergeNextGroupHooked ==
    /\ pc = "merge"
    /\ gi < Len(groups)
    /\ LET entries == EntriesOf(results, groups[gi + 1])
           answer == HookAnswer(hook, entries)
           output == MergeGroup(entries, answer)
       IN /\ merged' = Append(merged, output)
          /\ origin' = Append(origin, gi + 1)
          /\ prompts' = IF NeedsPrompt(entries)
                        THEN Append(prompts, [grp |-> gi + 1,
                                              company_name |-> clean_str(output.employer_name),
                                              answer |-> answer])
                        ELSE prompts
    /\ gi' = gi + 1
    /\ UNCHANGED <<results, input, include_role, groups, pc>>
    /\ UNCHANGED enrichVars
    /\ UNCHANGED auxVars

NextPermuted ==
    \/ NormalizeTimestamps
    \/ GroupEntries
    \/ MergeNextGroupHooked
    \/ SortMerged

SpecPermuted == InitPermuted /\ [][NextPermuted]_vars

\* ------------------------------------------------------------------ properties

\* The positions in the input of the observations merged into merged[k].
Members(k) == Range(groups[origin[k]].entries)

\* An observation's effective timestamp: a missing one counts as earlier than
\* every real one.
EffTs(o) == IF o.received_datetime = MISSING THEN DATETIME_MIN ELSE o.received_datetime

Absent(v) == v = None \/ Strip(v) = <<>>

IdentityFields == {"employer_name", "contact_person", "applied_position", "postal_address"}

\* C1: each identity field of a merged record is the cleaned value of an
\* observation that has the field and whose effective timestamp is the smallest
\* among the group's observations that have it.
C1_OldestWins ==
    \A k \in 1..Len(merged) : \A f \in IdentityFields :
        LET have == {i \in Members(k) : ~Absent(input[i][f])} IN
        have # {} =>
            \E i \in have :
                /\ \A j \in have : EffTs(input[i]) <= EffTs(input[j])
                /\ merged[k][f] = Strip(input[i][f])

\* An older observation with a position and a newer one with another position
\* or none were merged, and the older one's position is the merged one.
C1_Witness ==
    /\ pc = "done"
    /\ \E k \in 1..Len(merged) : \E i, j \in Members(k) :
        /\ input[i].received_datetime = 1 /\ input[j].received_datetime = 3
        /\ input[i].applied_position = PosP /\ input[j].applied_position = PosQ
        /\ input[i].employer_name = NameA2 /\ input[j].employer_name = NameA
        /\ merged[k].applied_position = PosP
        /\ merged[k].employer_name = <<"a", " ", " ", "B">>

\* C2: the merged result is the result, as it is, of an observation of the
\* group that no other observation of the group is newer than.
C2_NewestResult ==
    \A k \in 1..Len(merged) :
        \E i \in Members(k) :
            /\ \A j \in Members(k) : EffTs(input[i]) >= EffTs(input[j])
            /\ merged[k].result = input[i].result

\* The newest observation has no result, an older one has, and the merged
\* record has none.
C2_Witness ==
    /\ pc = "done"
    /\ \E k \in 1..Len(merged) : \E i, j \in Members(k) :
        /\ input[i].received_datetime = 1 /\ input[j].received_datetime = 3
        /\ input[i].result = ResultR /\ input[j].result = None
        /\ merged[k].result = None

\* C3: first_contact_date is the formatted smallest real timestamp of the
\* group, absent exactly when the group has no real timestamp, and never the
\* sentinel's date.
C3_FirstContactDate ==
    \A k \in 1..Len(merged) :
        LET real == {input[i].received_datetime : i \in Members(k)} \ {MISSING} IN
        /\ (real = {}) <=> (merged[k].first_contact_date = None)
        /\ real # {} => merged[k].first_contact_date = strftime(Min(real))
        /\ merged[k].first_contact_date # strftime(DATETIME_MIN)

\* A group of one observation without timestamp and one with timestamp 3
\* yields the date of timestamp 3.
C3_Witness ==
    /\ pc = "done"
    /\ \E k \in 1..Len(merged) : \E i, j \in Members(k) :
        /\ input[i].received_datetime = MISSING /\ input[j].received_datetime = 3
        /\ merged[k].first_contact_date = <<"0", "1", ".", "0", "2", ".", "2", "0", "2", "6">>

\* A name trimmed, its inner runs of spaces collapsed to one space, lower-cased.
RECURSIVE CollapseSpaces(_)
CollapseSpaces(s) ==
    IF Len(s) <= 1 THEN s
    ELSE IF s[1] = " " /\ s[2] = " " THEN CollapseSpaces(Tail(s))
    ELSE <<s[1]>> \o CollapseSpaces(Tail(s))

NormalizedName(v) == Lower(CollapseSpaces(Strip(v)))

\* C4: without the role in the key, two observations with usable employer
\* names are merged into the same record exactly when their normalized names
\* are equal; every observation is in exactly one record, and there is one
\* record per group key.
C4_GroupByNormalizedName ==
    (pc = "done" /\ ~include_role) =>
        /\ \A i \in 1..Len(input) :
            Cardinality({k \in 1..Len(merged) : i \in Members(k)}) = 1
        /\ \A i, j \in 1..Len(input) :
            (~Absent(input[i].employer_name) /\ ~Absent(input[j].employer_name)) =>
                ((\E k \in 1..Len(merged) : {i, j} \subseteq Members(k))
                 <=> NormalizedName(input[i].employer_name)
                        = NormalizedName(input[j].employer_name))
        /\ Len(merged) = Len(groups)
        /\ \A g, h \in 1..Len(groups) : groups[g].key = groups[h].key => g = h
        /\ \A k, l \in 1..Len(merged) : origin[k] = origin[l] => k = l

\* Two spellings of one name were merged into one record, and another name
\* that differs only by a missing space was not.
C4_Witness ==
    /\ pc = "done" /\ ~include_role
    /\ Len(input) = 3 /\ Len(merged) = 2
    /\ \E i, j, l \in 1..Len(input) :
        /\ input[i].employer_name = NameA /\ input[j].employer_name = NameA2
        /\ input[l].employer_name = NameAB

\* C5: two observations without usable employer name have different group
\* keys, their keys are no named observation's key, and each of them is the
\* only member of its group and has a record of its own.
C5_UnnamedAlone ==
    \A i \in 1..Len(input) :
        Absent(input[i].employer_name) =>
            /\ \A j \in 1..Len(input) \ {i} :
                group_key(input[i], include_role, i - 1)
                    # group_key(input[j], include_role, j - 1)
            /\ pc = "done" =>
                Cardinality({k \in 1..Len(merged) : Members(k) = {i}}) = 1

\* An observation with every field absent, a blank-named one and a named one
\* ended up in three records.
C5_Witness ==
    /\ pc = "done"
    /\ Len(input) = 3 /\ Len(merged) = 3
    /\ \E i, j, l \in 1..Len(input) :
        /\ i # j
        /\ input[i].employer_name = None /\ input[i].applied_position = None
        /\ Absent(input[j].employer_name)
        /\ input[l].employer_name = Name0

\* C6: the call leaves every observation of the input list as it was.
C6_InputUnchanged == results = input

\* Whether merged[k] has a first_contact_date that is present and parses.
ValidDate(k) ==
    /\ ~Absent(merged[k].first_contact_date)
    /\ strptime_ok(Strip(merged[k].first_contact_date))

ParsedDate(k) == strptime(Strip(merged[k].first_contact_date))

\* C7: in the returned list every record with a valid date precedes every
\* record without one, and the records with a valid date are in ascending
\* order of the parsed date.
C7_ValidDatesFirstAscending ==
    pc = "done" =>
        \A k, l \in 1..Len(merged) :
            k < l =>
                /\ ValidDate(l) => ValidDate(k)
                /\ (ValidDate(k) /\ ValidDate(l)) => ParsedDate(k) <= ParsedDate(l)

\* The input holds a dateless observation, then one of 01.02.2026, then one of
\* 31.01.2026, of three groups; the output holds them in the opposite order.
C7_Witness ==
    /\ pc = "done"
    /\ Len(input) = 3 /\ Len(merged) = 3
    /\ input[1].received_datetime = MISSING
    /\ input[2].received_datetime = 3
    /\ input[3].received_datetime = 1
    /\ origin = <<3, 2, 1>>
    /\ merged[1].first_contact_date = <<"3", "1", ".", "0", "1", ".", "2", "0", "2", "6">>
    /\ merged[3].first_contact_date = None

\* The position in the input at which the group of merged[k] first appeared.
FirstSeen(k) == Min(Members(k))

\* Date texts that strptime rejects.
MalformedDates ==
    {<<"x">>,
     <<"3", "1", ".", "0", "1">>,
     <<"3", "1", "-", "0", "1", "-", "2", "0", "2", "6">>,
     <<"3", "1", ".", "0", "2", ".", "2", "0", "2", "6">>,
     <<"0", "0", ".", "0", "1", ".", "2", "0", "2", "6">>,
     <<"0", "1", ".", "1", "3", ".", "2", "0", "2", "6">>}

\* C8: records without a valid date keep the order in which their groups
\* first appeared in the input, and so do records with equal parsed dates; a
\* malformed date text gets the sort key of an absent one.
C8_StableOrder ==
    /\ pc = "done" =>
        \A k, l \in 1..Len(merged) :
            (/\ k < l
             /\ \/ ~ValidDate(k) /\ ~ValidDate(l)
                \/ ValidDate(k) /\ ValidDate(l) /\ ParsedDate(k) = ParsedDate(l))
            => FirstSeen(k) < FirstSeen(l)
    /\ \A text \in MalformedDates :
        sort_key([first_contact_date |-> text]) = sort_key([first_contact_date |-> None])

\* A dateless group, then two groups of the same day, the later one first in
\* the input: the two dated records come out in input order, before the
\* dateless one.
C8_Witness ==
    /\ pc = "done"
    /\ Len(input) = 3 /\ Len(merged) = 3
    /\ input[1].received_datetime = MISSING
    /\ input[2].received_datetime = 2
    /\ input[3].received_datetime = 1
    /\ origin = <<2, 3, 1>>

\* The calls of prompt_job_title made for the group of merged[k].
PromptsFor(k) == {n \in 1..Len(prompts) : prompts[n].grp = origin[k]}

\* C9: the job-title hook is called for a group exactly when none of its
\* observations has a position, once, with the record's employer name; what
\* it returns is the record's applied_position, absent included; it is called
\* for no other group.
C9_PromptWhenNoPosition ==
    /\ \A k \in 1..Len(merged) :
        /\ (PromptsFor(k) # {})
             <=> (\A i \in Members(k) : Absent(input[i].applied_position))
        /\ Cardinality(PromptsFor(k)) <= 1
        /\ \A n \in PromptsFor(k) :
            /\ prompts[n].company_name = merged[k].employer_name
            /\ merged[k].applied_position = prompts[n].answer
    /\ \A n \in 1..Len(prompts) : prompts[n].grp \in Range(origin)

\* The hook was called for a group without position and returned nothing, it
\* was not called for a group with a position, and the run completed.
C9_Witness ==
    /\ pc = "done"
    /\ Len(prompts) = 1
    /\ prompts[1].answer = None
    /\ prompts[1].company_name = NameA
    /\ \E k, l \in 1..Len(merged) :
        /\ PromptsFor(k) # {} /\ merged[k].applied_position = None
        /\ PromptsFor(l) = {} /\ merged[l].applied_position = PosP

\* The entry enrich_missing_addresses processed last.
Processed == merged[ei]

\* The order in which the resolver's operations may be tried.
LookupOrder == <<"find_manual", "find_openregister", "prompt_and_save">>

\* C10: for a record that is processed the resolver operations are called in
\* the order stored lookup, external lookup, prompt, the prompt only when
\* interactive; no operation follows one that returned an address; the lookup
\* goes on while none did; and postal_address is the first address returned,
\* trimmed, or absent if none was.
C10_LookupOrder ==
    (ei > 0 /\ calls # <<>>) =>
        /\ Len(calls) \in 1..3
        /\ \A n \in 1..Len(calls) : calls[n].op = LookupOrder[n]
        /\ \A n \in 1..(Len(calls) - 1) : Absent(calls[n].ret)
        /\ (~interactive) => Len(calls) <= 2
        /\ IF Absent(calls[Len(calls)].ret)
           THEN /\ Len(calls) = IF interactive THEN 3 ELSE 2
                /\ Processed.postal_address = None
           ELSE Processed.postal_address = Strip(calls[Len(calls)].ret)

\* The stored lookup found nothing, the external lookup returned a padded
\* address, no prompt followed although the run is interactive, and the record
\* holds the address.
C10_Witness ==
    /\ ei > 0
    /\ interactive
    /\ Len(calls) = 2
    /\ calls[1].ret = None
    /\ calls[2].ret = <<" ", "g">>
    /\ Processed.postal_address = <<"g">>

\* The external lookup returned a tab, which is no address, so the user was
\* asked, and what was typed is stored in the manual table and in the record.
C10_PromptAfterBlank ==
    /\ ei > 0
    /\ Len(calls) = 3
    /\ calls[2].ret = <<"\t">>
    /\ calls[3].ret = <<"s", ",", " ", "2", " ", "z">>
    /\ Processed.postal_address = calls[3].ret
    /\ Len(manual) = 2

\* The stored lookup answered for a name that differs in case from the stored one.
C10_ManualHit ==
    /\ ei > 0
    /\ Len(calls) = 1
    /\ Processed.employer_name = NameA
    /\ Processed.postal_address = <<"s", ",", " ", "1", " ", "y">>

\* The records enrich_missing_addresses leaves alone: no employer name, or an
\* address already there.
LeftAlone(entry) == Absent(entry.employer_name) \/ ~Absent(entry.postal_address)

\* C11: enrich_missing_addresses keeps the number and the order of the records
\* and every field but postal_address; a record with an absent or blank
\* employer_name, or with a postal_address already present, is unchanged and
\* no resolver call is made for it.
C11_FrameOfEnrichment ==
    /\ Len(merged) = Len(before)
    /\ \A k \in 1..Len(merged) :
        /\ merged[k] = [before[k] EXCEPT !.postal_address = merged[k].postal_address]
        /\ LeftAlone(before[k]) => merged[k] = before[k]
    /\ ei > 0 /\ LeftAlone(before[ei]) => calls = <<>>

\* The first record had a name and no address and received one; the second had
\* an address already: no call was made for it and it is as it was.
C11_Witness ==
    /\ pc = "closed"
    /\ ei = 2
    /\ before[1].employer_name = NameA
    /\ before[1].postal_address = None
    /\ merged[1].postal_address # None
    /\ before[2].employer_name = NameA
    /\ before[2].postal_address = <<"f">>
    /\ merged[2] = before[2]
    /\ calls = <<>>

\* A record without a name is passed over although the manual table would
\* answer nothing and the run is interactive; a blank address is no address and
\* is replaced.
C11_BlankCases ==
    /\ ei = 2
    /\ interactive
    /\ before[1].employer_name = Blank
    /\ before[1].postal_address = None
    /\ merged[1] = before[1]
    /\ before[2].employer_name = NameAB
    /\ before[2].postal_address = Blank
    /\ merged[2].postal_address # Blank

\* C12: when the construction of the address resolver fails, the run goes on
\* to the exporter with the merged records as they were: no run is aborted
\* by the failure.
C12_ResolverFailureSkipsEnrichment == pc # "aborted"

\* What an unavailable resolver leaves behind when the run does stop: the
\* merged records are untouched, and they are never exported.
C12_AbortedUntouched == pc = "aborted" => merged = before /\ ei = 0

\* The failures of the model call and of the parsing of its output.
Failures == {"transport error", "empty output", "malformed JSON", "non-object JSON"}

C13_ObjectParsed ==
    /\ Len(results) = 1
    /\ results[1].status = "ok"
    /\ results[1].employer_name = NameA
    /\ results[1].result = <<"A", "b", "s", "a", "g", "e">>
    /\ results[1].contact_person = None

\* The normalized applied_position: absent, or trimmed, inner whitespace
\* collapsed, lower-cased.
NormalizedRole(v) == IF Absent(v) THEN None ELSE Lower(CollapseSpaces(Strip(v)))

SameRecord(i, j) == \E k \in 1..Len(merged) : {i, j} \subseteq Members(k)

\* C14: of two observations with the same normalized employer name, when
\* include_role_in_key is false both are in the same group whatever their
\* applied_position; when it is true they are in the same group exactly when
\* their normalized applied_position values are equal, absent being equal to
\* absent only.
C14_RoleInKeyOnlyWhenAsked ==
    pc = "done" =>
        \A i, j \in 1..Len(input) :
            (/\ ~Absent(input[i].employer_name)
             /\ ~Absent(input[j].employer_name)
             /\ NormalizedName(input[i].employer_name)
                    = NormalizedName(input[j].employer_name)) =>
                IF include_role
                THEN SameRecord(i, j) <=>
                        NormalizedRole(input[i].applied_position)
                            = NormalizedRole(input[j].applied_position)
                ELSE SameRecord(i, j)

\* With the role in the key, two spellings of one employer with two spellings
\* of one position gave one record.
C14_Witness ==
    /\ pc = "done"
    /\ include_role
    /\ Len(input) = 2
    /\ input[1].employer_name = NameA
    /\ input[2].employer_name = NameA2
    /\ input[1].applied_position = PosP
    /\ input[2].applied_position = PosP2
    /\ Len(merged) = 1

\* With the role in the key, an absent and a present position of one employer
\* gave two records.
C14_SplitByRole ==
    /\ pc = "done"
    /\ include_role
    /\ Len(input) = 2
    /\ input[1].employer_name = NameA
    /\ input[2].employer_name = NameA
    /\ input[1].applied_position = Blank
    /\ input[2].applied_position = PosP
    /\ Len(merged) = 2

\* Without the role in the key, two different positions of one employer gave
\* one record.
C14_OneRecordWithoutRole ==
    /\ pc = "done"
    /\ ~include_role
    /\ Len(input) = 2
    /\ input[1].employer_name = NameA
    /\ input[2].employer_name = NameA2
    /\ input[1].applied_position = PosP
    /\ input[2].applied_position = PosQ
    /\ Len(merged) = 1

\* C15: for an empty list of observations dedupe_and_merge_results returns an
\* empty list of records, asks for no job title and raises nothing.
C15_EmptyInEmptyOut ==
    input = <<>> =>
        /\ pc \in {"start", "done"}
        /\ merged = <<>>
        /\ prompts = <<>>

\* The call with no observation has returned.
C15_Witness ==
    /\ pc = "done"
    /\ input = <<>>
    /\ results = <<>>
    /\ merged = <<>>
    /\ prompts = <<>>

\* v is text without whitespace at either end and is a stretch of the text s.
TrimmedStretchOf(v, s) ==
    /\ v # <<>>
    /\ ~IsSpace(v[1])
    /\ ~IsSpace(v[Len(v)])
    /\ \E i \in 1..Len(s) :
        /\ v = SubSeq(s, i, i + Len(v) - 1)
        /\ \A j \in 1..Len(s) : (j < i \/ j >= i + Len(v)) => IsSpace(s[j])

\* C16: clean_str applied to its own result returns that result; it never
\* returns the empty text; an absent value and a text of whitespace only give
\* absent, any other text gives the text without its surrounding whitespace.
C16_CleanIdempotent ==
    pc = "cleaned" =>
        /\ ret[2] = ret[1]
        /\ ret[1] # <<>>
        /\ IF arg = None \/ \A j \in 1..Len(arg) : IsSpace(arg[j])
           THEN ret[1] = None
           ELSE ret[1] # None /\ TrimmedStretchOf(ret[1], arg)

\* A padded text with whitespace inside was trimmed, and trimming the result
\* changed nothing.
C16_Witness ==
    /\ pc = "cleaned"
    /\ arg = <<" ", "a", "\t", "a">>
    /\ ret = <<<<"a", "\t", "a">>, <<"a", "\t", "a">>>>

\* A text of whitespace only gave absent, and absent stayed absent.
C16_BlankToAbsent ==
    /\ pc = "cleaned"
    /\ arg = <<" ", "\t">>
    /\ ret = <<None, None>>

Max(S) == CHOOSE x \in S : \A y \in S : y <= x

\* The place of observation i among the observations S in the order
\* "effective timestamp descending, equal timestamps in input order".
PlaceNewestFirst(i, S) ==
    1 + Cardinality({j \in S : \/ EffTs(input[j]) > EffTs(input[i])
                               \/ EffTs(input[j]) = EffTs(input[i]) /\ j < i})

\* The observations S in that order, as positions in the input.
NewestFirstPositions(S) ==
    [p \in 1..Cardinality(S) |-> CHOOSE i \in S : PlaceNewestFirst(i, S) = p]

\* C17: the newest-first list of a group is its observations by effective
\* timestamp descending, equal timestamps in input order, and the oldest-first
\* list is that list reversed; so the result of a merged record is that of the
\* earliest in the input among the observations with the greatest effective
\* timestamp, and an identity field is the cleaned value of the latest in the
\* input among the observations with the smallest effective timestamp that
\* have the field.
C17_TieOrder ==
    /\ pc \in {"merge", "sort", "done"} =>
        \A g \in 1..Len(groups) :
            LET S == Range(groups[g].entries)
                n == Cardinality(S)
                order == NewestFirstPositions(S)
                entries == EntriesOf(results, groups[g])
            IN /\ NewestFirst(entries) = [p \in 1..n |-> results[order[p]]]
               /\ OldestFirst(entries) = [p \in 1..n |-> results[order[n + 1 - p]]]
    /\ \A k \in 1..Len(merged) :
        LET S == Members(k)
            top == {i \in S : \A j \in S : EffTs(input[i]) >= EffTs(input[j])}
        IN /\ merged[k].result = input[Min(top)].result
           /\ \A f \in IdentityFields :
                LET have == {i \in S : ~Absent(input[i][f])}
                    low == {i \in have : \A j \in have : EffTs(input[i]) <= EffTs(input[j])}
                IN have # {} => merged[k][f] = clean_str(input[Max(low)][f])

\* Two observations of one employer without timestamp and with different
\* results: the record has the result of the first.
C17_Witness ==
    /\ pc = "done"
    /\ Len(input) = 2
    /\ Len(merged) = 1
    /\ input[1].received_datetime = MISSING
    /\ input[2].received_datetime = MISSING
    /\ input[1].result = ResultR
    /\ input[2].result = ResultZ
    /\ merged[1].result = ResultR

\* Two observations of one employer with the same timestamp and two spellings
\* of the name: the record has the spelling of the second.
C17_IdentityFromLatest ==
    /\ pc = "done"
    /\ Len(input) = 2
    /\ Len(merged) = 1
    /\ input[1].received_datetime = 1
    /\ input[2].received_datetime = 1
    /\ input[1].employer_name = NameA
    /\ input[2].employer_name = NameA2
    /\ merged[1].employer_name = <<"a", " ", " ", "B">>

\* The policy without fallback: the cleaned value of the first observation,
\* from oldest to newest, that has the field, else absent.
FirstNonAbsentOldestFirst(S, f) ==
    LET order == NewestFirstPositions(S)
        have == {p \in 1..Cardinality(S) : ~Absent(input[order[p]][f])}
    IN IF have = {} THEN None ELSE clean_str(input[order[Max(have)]][f])

\* C18: the fallback to the newest observation's cleaned value changes
\* nothing: employer_name, contact_person and postal_address of every merged
\* record are what "first non-absent from oldest to newest, else absent"
\* gives, applied_position is so too unless that is absent, and the hook is
\* called for a record exactly when that is absent.
C18_FallbackRedundant ==
    \A k \in 1..Len(merged) :
        /\ \A f \in IdentityFields \ {"applied_position"} :
            merged[k][f] = FirstNonAbsentOldestFirst(Members(k), f)
        /\ LET job_title == FirstNonAbsentOldestFirst(Members(k), "applied_position") IN
            /\ (PromptsFor(k) # {}) <=> (job_title = None)
            /\ job_title # None => merged[k].applied_position = job_title

\* A record of one observation without employer name: the scan found no
\* name, the fallback was taken and gave absent as well; the position was
\* found by the scan and no hook call was made.
C18_Witness ==
    /\ pc = "done"
    /\ Len(merged) = 1
    /\ Members(1) = {1}
    /\ input[1].employer_name = None
    /\ input[1].applied_position = PosP
    /\ merged[1].employer_name = None
    /\ merged[1].applied_position = clean_str(PosP)
    /\ prompts = <<>>

\* A record of one observation with a blank name: the fallback was taken and
\* gave absent, not the blank text; the hook was called.
C18_BlankNameStaysAbsent ==
    /\ pc = "done"
    /\ Len(merged) = 1
    /\ input[1].employer_name = Blank
    /\ merged[1].employer_name = None
    /\ Len(prompts) = 1

\* The record of the observations S as the merge policy states it, from these
\* observations and the hook's answer alone.
RecordOf(S, answer) ==
    LET top == {i \in S : \A j \in S : EffTs(input[i]) >= EffTs(input[j])}
        real == {input[i].received_datetime : i \in S} \ {MISSING}
        job_title == FirstNonAbsentOldestFirst(S, "applied_position")
    IN [employer_name |-> FirstNonAbsentOldestFirst(S, "employer_name"),
        result |-> input[Min(top)].result,
        contact_person |-> FirstNonAbsentOldestFirst(S, "contact_person"),
        applied_position |-> IF job_title = None THEN answer ELSE job_title,
        postal_address |-> FirstNonAbsentOldestFirst(S, "postal_address"),
        first_contact_date |-> IF real = {} THEN None ELSE strftime(Min(real))]

\* The hook's answer for the group g, absent when the hook was not called.
AnswerFor(g) ==
    IF \E n \in 1..Len(prompts) : prompts[n].grp = g
    THEN prompts[CHOOSE n \in 1..Len(prompts) : prompts[n].grp = g].answer
    ELSE None

\* C19: in whatever order the groups are merged and their records appended,
\* every merged record is the record of its own group's observations and of
\* the hook's answer for that group, and every group gives one record: the
\* records are the same set in every order.
C19_MergesIndependent ==
    /\ \A o \in outputs :
        o.output = RecordOf(Range(groups[o.grp].entries), AnswerFor(o.grp))
    /\ \A k \in 1..Len(merged) : merged[k] = RecordOf(Members(k), AnswerFor(origin[k]))
    /\ \A k, l \in 1..Len(merged) : origin[k] = origin[l] => k = l
    /\ pc \in {"sort", "done"} => Range(origin) = 1..Len(groups)

\* The second group was merged and appended before the first; the hook was
\* called for the first only.
C19_Witness ==
    /\ pc = "merge"
    /\ Len(groups) = 2
    /\ origin = <<2, 1>>
    /\ merged[1].applied_position = PosP
    /\ merged[2].applied_position = <<"T">>
    /\ Len(prompts) = 1

\* Two merges are in progress at once, the second group's begun first.
C19_Interleaved ==
    /\ Cardinality(outputs) = 2
    /\ Len(prompts) = 2
    /\ prompts[1].grp = 2
    /\ prompts[2].grp = 1

\* A call that has something to store: none of its four texts is blank.
Storing(s) ==
    /\ ~Absent(s.company_name)
    /\ ~Absent(s.street)
    /\ ~Absent(s.postal_code)
    /\ ~Absent(s.city)

\* The names that differ from the name of the call s in case only.
CaseVariants(s) == {v \in StoreNames : Lower(Strip(v)) = Lower(Strip(s.company_name))}

\* The most recent storing call for its name.
MostRecent(n) ==
    /\ Storing(saves[n])
    /\ \A m \in (n + 1)..Len(saves) :
        Storing(saves[m]) => saves[m].company_name \notin CaseVariants(saves[n])

\* C20: after any calls of save_manual and prompt_and_save the store has at
\* most one row per company name, names compared without regard to case;
\* find_manual of any case variant of a saved name returns street, postal code
\* and city of the most recent save for that name; a call with a blank name,
\* street, postal code or city leaves the store unchanged.
C20_OneAddressPerName ==
    /\ \A i, j \in 1..Len(manual) :
        Lower(manual[i].company_name) = Lower(manual[j].company_name) => i = j
    /\ \A n \in 1..Len(saves) :
        MostRecent(n) =>
            \A v \in CaseVariants(saves[n]) :
                find_manual(manual, v)
                    = <<[street |-> Strip(saves[n].street),
                         postal_code |-> Strip(saves[n].postal_code),
                         city |-> Strip(saves[n].city)]>>
    /\ \A n \in 1..Len(saves) : ~Storing(saves[n]) => saves[n].after = saves[n].before

\* The letters whose case NOCASE folds.
AsciiName(v) == \A i \in 1..Len(v) : v[i] \in {" ", "a", "b", "A", "B"}

\* The same for the names written in ASCII letters: one row per name, the
\* most recent address under every case variant, blank calls without effect.
C20_AsciiNames ==
    /\ \A i, j \in 1..Len(manual) :
        (/\ AsciiName(manual[i].company_name)
         /\ Lower(manual[i].company_name) = Lower(manual[j].company_name)) => i = j
    /\ \A n \in 1..Len(saves) :
        (MostRecent(n) /\ AsciiName(saves[n].company_name)) =>
            \A v \in CaseVariants(saves[n]) :
                find_manual(manual, v)
                    = <<[street |-> Strip(saves[n].street),
                         postal_code |-> Strip(saves[n].postal_code),
                         city |-> Strip(saves[n].city)]>>
    /\ \A n \in 1..Len(saves) : ~Storing(saves[n]) => saves[n].after = saves[n].before

\* An address was saved for ab and then another typed for AB: one row, with
\* the second address.
C20_Updated ==
    /\ Len(saves) = 2
    /\ saves[1].company_name = <<"a", "b">>
    /\ saves[2].company_name = <<" ", "A", "B">>
    /\ saves[2].op = "prompt_and_save"
    /\ Len(manual) = 1
    /\ manual[1].street = <<"t">>
    /\ manual[1].company_name = <<"a", "b">>

\* A call with a blank postal code after a storing call left the row alone.
C20_BlankIgnored ==
    /\ Len(saves) = 2
    /\ Storing(saves[1])
    /\ saves[2].postal_code = <<" ">>
    /\ saves[2].company_name = saves[1].company_name
    /\ Len(manual) = 1

\* The rows of all files, in the order of the files.
RECURSIVE AllRows(_)
AllRows(files) ==
    IF files = <<>> THEN <<>>
    ELSE AllRows(SubSeq(files, 1, Len(files) - 1)) \o files[Len(files)].rows

\* The smallest number of pages of 6 that hold n records.
PagesFor(n) == (n + 5) \div 6

\* What the files hold when write_results_to_excels has returned: one file per
\* page under a name of its own, the records once each and in their order,
\* six in every file but the last.
Paged ==
    /\ Len(out_files) = PagesFor(Len(merged))
    /\ AllRows(out_files) = [i \in 1..Len(merged) |-> SheetRows(merged[i])]
    /\ \A p \in 1..Len(out_files) :
        /\ p < Len(out_files) => Len(out_files[p].rows) = 6
        /\ Len(out_files[p].rows) \in 1..6
        /\ \A q \in 1..Len(out_files) : out_files[p].path = out_files[q].path => p = q

\* C21: write_results_to_excels returns for every list of records, and then
\* n records are in ceil(n/6) files (none for n = 0), each record in one
\* file, in input order across and within the files, six in every file except
\* possibly the last.
C21_PagesOfSix ==
    /\ <>(pc = "returned")
    /\ [](pc = "returned" => Paged)

\* Thirteen records were written to three files of six, six and one.
C21_Witness ==
    /\ pc = "returned"
    /\ Len(merged) = 13
    /\ Len(out_files) = 3
    /\ Len(out_files[1].rows) = 6
    /\ Len(out_files[2].rows) = 6
    /\ Len(out_files[3].rows) = 1
    /\ out_files[3].path = <<"table_filled_", "0", "3", ".xlsx">>
    /\ out_files[3].numbers = <<13, 14, 15, 16, 17, 18>>

\* Twelve records fill two files, and no third file is written.
C21_FullLastPage ==
    /\ pc = "returned"
    /\ Len(merged) = 12
    /\ Len(out_files) = 2
    /\ Len(out_files[2].rows) = 6

\* No record, no file.
C21_NoRecordNoFile ==
    /\ pc = "returned"
    /\ merged = <<>>
    /\ out_files = <<>>

\* Every observation of the list has a real timestamp, and no two
\* observations of one group have the same.
DistinctRealTimestamps(rs) ==
    /\ \A i \in 1..Len(rs) : rs[i].received_datetime # MISSING
    /\ \A i, j \in 1..Len(rs) :
        (/\ i # j
         /\ group_key(rs[i], include_role, i - 1) = group_key(rs[j], include_role, j - 1)) =>
            rs[i].received_datetime # rs[j].received_datetime

\* The records of a list, each with the number of times it occurs.
Occurrences(rs) == [r \in Range(rs) |-> Cardinality({k \in 1..Len(rs) : rs[k] = r})]

\* C22: when the observations of each group have pairwise distinct real
\* timestamps and the hook answers by employer name, the records
\* dedupe_and_merge_results returns for the input in another order are the
\* records it returns for the input, all six fields of each.
C22_OrderOfInputIrrelevant ==
    (pc = "done" /\ DistinctRealTimestamps(original)) =>
        Occurrences(merged)
            = Occurrences(dedupe_and_merge_results(original, include_role, hook))

\* Two observations of one employer with different times, names, positions
\* and results were given in the other order, and the record is the one of
\* the first order: name and position of the older, result of the newer.
C22_Witness ==
    /\ pc = "done"
    /\ Len(original) = 2
    /\ original[1].employer_name = NameA2
    /\ original[1].received_datetime = 3
    /\ original[2].employer_name = NameA
    /\ original[2].received_datetime = 1
    /\ results = <<original[2], original[1]>>
    /\ merged = <<[employer_name |-> NameA, result |-> None, contact_person |-> None,
                   applied_position |-> PosQ, postal_address |-> None,
                   first_contact_date |-> strftime(1)]>>
    /\ merged = dedupe_and_merge_results(original, include_role, hook)

\* With the same timestamp on two observations of one employer the order of
\* the input shows in the record.
C22_TiesDependOnOrder ==
    /\ pc = "done"
    /\ Len(original) = 2
    /\ original[1].received_datetime = original[2].received_datetime
    /\ Len(merged) = 1
    /\ merged # dedupe_and_merge_results(original, include_role, hook)

====
